---- MODULE Spec2Model ----
(***************************************************************************)
(* A model of server.py: the clan site's API.  The document store is four  *)
(* collections (sequences of documents in insertion order), the auth gate  *)
(* is create_access_token / verify_token over PyJWT, every route handler   *)
(* is one action per store operation it awaits, and the loading of the     *)
(* module itself (which object the name `app` is bound to) is a sequence   *)
(* of steps.                                                               *)
(***************************************************************************)
EXTENDS Integers, Sequences, FiniteSets, TLC

VARIABLES
    now,            \* the wall clock, in ticks of 1/TicksPerSecond second
    issued,         \* log of the tokens admin_login has returned
    leaders,        \* db.leaders, documents in insertion order
    wars,           \* db.wars
    gallery,        \* db.gallery
    testimonials,   \* db.testimonials
    nextId,         \* stands for uuid4(): the next unused identifier
    upd,            \* update_war requests between their awaits
    ini,            \* initialize_data requests between their awaits
    resp,           \* the last request step handled and its response
    approvedBy,     \* log: ids an authorized approve_testimonial matched
    createdWars,    \* log: ids create_war inserted since the last delete_war
    overlapped,     \* log: an initialize call began while another was running
    loadPc,         \* how far the module has been executed
    appName,        \* the FastAPI object the name `app` is bound to (0: none)
    appObjs,        \* the FastAPI objects: their routes and shutdown hooks
    routerRoutes,   \* the routes decorated onto api_router
    server,         \* the ASGI server: "down", "up", "stopped"
    served,         \* the FastAPI object the server serves (0: none)
    clientOpen,     \* whether the store connection is open
    accessLog       \* the (path, status) pairs the server has answered

vars == <<now, issued, leaders, wars, gallery, testimonials, nextId, upd, ini,
          resp, approvedBy, createdWars, overlapped, loadPc, appName, appObjs,
          routerRoutes, server, served, clientOpen, accessLog>>

store == <<leaders, wars, gallery, testimonials>>
logs == <<approvedBy, createdWars, overlapped>>
procs == <<upd, ini>>
module == <<loadPc, appName, appObjs, routerRoutes, server, served, clientOpen,
            accessLog>>

(***************************************************************************)
(* Bounds of the model.                                                    *)
(***************************************************************************)
TicksPerSecond == 2
Slack == 3
MaxTokens == 2
MaxNew == 1
MaxWars == 2
NumUpd == 1
NumInit == 2
Preload == 99
MaxHits == 2

(***************************************************************************)
(* Program constants.                                                      *)
(***************************************************************************)
JWT_SECRET == "jwt-secret"
ADMIN_USERNAME == "admin"
ADMIN_PASSWORD == "admin-password"
TOKEN_HOURS == 24
LIST_CAP == 100

TokenLifetimeTicks == TOKEN_HOURS * 3600 * TicksPerSecond

\* Optional[...] fields: None, or a present value.
None == <<>>
Some(v) == <<v>>

(***************************************************************************)
(* AUTH                                                                    *)
(***************************************************************************)

\* What a request can carry in its Authorization header: nothing, a bearer
\* string that is no JWT, or a JWT with its claims and the key that signed it.
NoCredentials == [kind |-> "none", sub |-> "", role |-> "", exp |-> 0, key |-> ""]
Garbage == [kind |-> "garbage", sub |-> "", role |-> "", exp |-> 0, key |-> ""]
Jwt(sub, role, exp, key) ==
    [kind |-> "jwt", sub |-> sub, role |-> role, exp |-> exp, key |-> key]

\* jwt.encode writes a datetime `exp` as whole seconds since the epoch
\* (timegm of its utctimetuple): the fraction of a second is dropped.
create_access_token_wrong_ttl(data, t) ==
    Jwt(data.sub, data.role, (t + TokenLifetimeTicks) \div TicksPerSecond + 1,
        JWT_SECRET)

create_access_token(data, t) ==
    Jwt(data.sub, data.role, (t + TokenLifetimeTicks) \div TicksPerSecond,
        JWT_SECRET)

\* HTTPBearer refuses a request without a bearer credential; jwt.decode
\* checks the signature against JWT_SECRET, then the expiry: PyJWT raises
\* ExpiredSignatureError when exp <= now.
verify_token_no_signature(credentials, t) ==
    IF credentials.kind = "none" THEN "missing"
    ELSE IF credentials.kind # "jwt" THEN "invalid"
    ELSE IF credentials.exp * TicksPerSecond <= t THEN "expired"
    ELSE "ok"

verify_token(credentials, t) ==
    IF credentials.kind = "none" THEN "missing"
    ELSE IF credentials.kind # "jwt" THEN "invalid"
    ELSE IF credentials.key # JWT_SECRET THEN "invalid"
    ELSE IF credentials.exp * TicksPerSecond <= t THEN "expired"
    ELSE "ok"

\* The status a refused request ends with.
Refusal(verdict) == IF verdict = "missing" THEN 403 ELSE 401

\* A request step as the formulas below see it: the route, the credentials it
\* carried, when they were verified, and the outcome (status 0: the handler is
\* still between two awaits).
Response(op, credentials, at, status, body) ==
    [op |-> op, creds |-> credentials, at |-> at, status |-> status,
     body |-> body]

(***************************************************************************)
(* THE DOCUMENT STORE                                                      *)
(***************************************************************************)

Min(a, b) == IF a < b THEN a ELSE b

Ids(coll) == {coll[i].id : i \in 1..Len(coll)}

\* The indices of the documents matching {"id": id}, and the first of them.
Matching(coll, id) == {i \in 1..Len(coll) : coll[i].id = id}
FirstMatch(coll, id) ==
    CHOOSE i \in Matching(coll, id) : \A j \in Matching(coll, id) : i <= j

\* collection.find_one({"id": id}): the first matching document, or None.
find_one(coll, id) ==
    IF Matching(coll, id) = {} THEN None ELSE Some(coll[FirstMatch(coll, id)])

\* collection.insert_one(doc), insert_many(docs)
insert_one(coll, doc) == Append(coll, doc)
insert_many(coll, docs) == coll \o docs

\* collection.delete_one({"id": id}): the first matching document goes.
delete_one(coll, id) ==
    IF Matching(coll, id) = {} THEN coll
    ELSE LET k == FirstMatch(coll, id)
         IN  [i \in 1..(Len(coll) - 1) |-> IF i < k THEN coll[i] ELSE coll[i + 1]]

\* collection.update_one({"id": id}, {"$set": fields}): the first matching
\* document takes the given fields and keeps its others.
update_one(coll, id, fields) ==
    IF Matching(coll, id) = {} THEN coll
    ELSE LET k == FirstMatch(coll, id)
         IN  [coll EXCEPT ![k] =
                 [f \in DOMAIN coll[k] |->
                     IF f \in DOMAIN fields THEN fields[f] ELSE coll[k][f]]]

\* cursor.sort(field, direction): ascending for 1, descending for -1;
\* documents with equal keys stay in insertion order.
Before(a, b, field, direction) ==
    IF direction = 1 THEN a[field] < b[field] ELSE a[field] > b[field]

sort(coll, field, direction) ==
    LET less(a, b) == Before(a, b, field, direction)
    IN  SortSeq(coll, less)

\* cursor.to_list(100)
to_list(coll, length) == SubSeq(coll, 1, Min(Len(coll), length))

\* find(query, {"_id": 0}).sort(...).to_list(100) of each list route.
FindLeaders == to_list(sort(leaders, "order", 1), LIST_CAP)

FindWars_unsorted == to_list(wars, LIST_CAP)

FindWars == to_list(sort(wars, "order", 1), LIST_CAP)

FindGallery == to_list(sort(gallery, "created_at", -1), LIST_CAP)

FindTestimonials_ignoring_query(approved_only) ==
    to_list(sort(testimonials, "created_at", -1), LIST_CAP)

FindTestimonials(approved_only) ==
    LET query(t) == IF approved_only THEN t.approved = TRUE ELSE TRUE
        found == SelectSeq(testimonials, query)
    IN  to_list(sort(found, "created_at", -1), LIST_CAP)

(***************************************************************************)
(* ROUTES                                                                  *)
(***************************************************************************)

\* Depends(verify_token) raised: the handler body never runs.
Refused(op, credentials) ==
    /\ resp' = Response(op, credentials, now,
                        Refusal(verify_token(credentials, now)), "refused")
    /\ UNCHANGED <<now, issued, store, nextId, procs, logs, module>>

\* Time passes.
Tick(t) ==
    /\ t > now
    /\ now' = t
    /\ UNCHANGED <<issued, store, nextId, procs, resp, logs, module>>

\* POST /auth/login.  The response is recorded with the login it answers.
admin_login(login_data) ==
    IF login_data.username = ADMIN_USERNAME /\ login_data.password = ADMIN_PASSWORD
    THEN LET access_token ==
                 create_access_token([sub |-> login_data.username, role |-> "admin"], now)
         IN  /\ issued' = issued \cup {[token |-> access_token, at |-> now,
                                        username |-> login_data.username,
                                        password |-> login_data.password]}
             /\ resp' = Response("admin_login", NoCredentials, now, 200,
                                 [login_data |-> login_data,
                                  access_token |-> access_token])
             /\ UNCHANGED <<now, store, nextId, procs, logs, module>>
    ELSE /\ resp' = Response("admin_login", NoCredentials, now, 401,
                             [login_data |-> login_data,
                              access_token |-> NoCredentials])
         /\ UNCHANGED <<now, issued, store, nextId, procs, logs, module>>

\* A read: nothing but the response changes.
Answer(op, credentials, status, body) ==
    /\ resp' = Response(op, credentials, now, status, body)
    /\ UNCHANGED <<now, issued, store, nextId, procs, logs, module>>

\* GET /leaders, /wars, /gallery, /testimonials
get_leaders == Answer("get_leaders", NoCredentials, 200, FindLeaders)
get_wars == Answer("get_wars", NoCredentials, 200, FindWars)
get_gallery == Answer("get_gallery", NoCredentials, 200, FindGallery)
get_testimonials(approved_only) ==
    /\ resp' = [Response("get_testimonials", NoCredentials, now, 200,
                         FindTestimonials(approved_only))
                EXCEPT !.op = IF approved_only THEN "get_testimonials"
                              ELSE "get_testimonials_all"]
    /\ UNCHANGED <<now, issued, store, nextId, procs, logs, module>>

\* WarStatistic(**war_data.model_dump()) with a generated id.
WarStatistic(id, war_data) ==
    [id |-> id, opponent |-> war_data.opponent, wins |-> war_data.wins,
     losses |-> war_data.losses, order |-> war_data.order]

\* POST /wars
create_war(credentials, war_data) ==
    IF verify_token(credentials, now) # "ok" THEN Refused("create_war", credentials)
    ELSE LET war_obj == WarStatistic(nextId, war_data)
         IN  /\ wars' = insert_one(wars, war_obj)
             /\ nextId' = nextId + 1
             /\ createdWars' = createdWars \cup {war_obj.id}
             /\ resp' = Response("create_war", credentials, now, 200, war_obj)
             /\ UNCHANGED <<now, issued, leaders, gallery, testimonials, procs,
                            approvedBy, overlapped, module>>

\* DELETE /wars/{war_id}
delete_war_ungated(credentials, war_id) ==
    IF Matching(wars, war_id) = {}
    THEN Answer("delete_war", credentials, 404, "War not found")
    ELSE /\ wars' = delete_one(wars, war_id)
         /\ createdWars' = {}
         /\ resp' = Response("delete_war", credentials, now, 200, "War deleted successfully")
         /\ UNCHANGED <<now, issued, leaders, gallery, testimonials, nextId,
                        procs, approvedBy, overlapped, module>>

delete_war(credentials, war_id) ==
    IF verify_token(credentials, now) # "ok" THEN Refused("delete_war", credentials)
    ELSE IF Matching(wars, war_id) = {}
    THEN Answer("delete_war", credentials, 404, "War not found")
    ELSE /\ wars' = delete_one(wars, war_id)
         /\ createdWars' = {}
         /\ resp' = Response("delete_war", credentials, now, 200, "War deleted successfully")
         /\ UNCHANGED <<now, issued, leaders, gallery, testimonials, nextId,
                        procs, approvedBy, overlapped, module>>

\* POST /gallery
add_gallery_image(credentials, image_data) ==
    IF verify_token(credentials, now) # "ok"
    THEN Refused("add_gallery_image", credentials)
    ELSE LET image_obj == [id |-> nextId, image_url |-> image_data.image_url,
                           created_at |-> now]
         IN  /\ gallery' = insert_one(gallery, image_obj)
             /\ nextId' = nextId + 1
             /\ resp' = Response("add_gallery_image", credentials, now, 200, image_obj)
             /\ UNCHANGED <<now, issued, leaders, wars, testimonials, procs,
                            logs, module>>

\* DELETE /gallery/{image_id}
delete_gallery_image(credentials, image_id) ==
    IF verify_token(credentials, now) # "ok"
    THEN Refused("delete_gallery_image", credentials)
    ELSE IF Matching(gallery, image_id) = {}
    THEN Answer("delete_gallery_image", credentials, 404, "Image not found")
    ELSE /\ gallery' = delete_one(gallery, image_id)
         /\ resp' = Response("delete_gallery_image", credentials, now, 200,
                             "Image deleted successfully")
         /\ UNCHANGED <<now, issued, leaders, wars, testimonials, nextId,
                        procs, logs, module>>

\* TestimonialCreate keeps author_name (its default when the body has none)
\* and content, and drops every other field of the body; Testimonial then
\* gives the record its id, approved = False and created_at.
DefaultAuthor == "Anonymous warrior"

TestimonialCreate(body) ==
    [author_name |-> IF body.author_name = None THEN DefaultAuthor
                     ELSE body.author_name[1],
     content |-> body.content]

Testimonial_trusting_body(id, body, t) ==
    [id |-> id, author_name |-> TestimonialCreate(body).author_name,
     content |-> body.content,
     approved |-> IF body.approved = None THEN FALSE ELSE body.approved[1],
     created_at |-> t]

Testimonial(id, body, t) ==
    [id |-> id, author_name |-> TestimonialCreate(body).author_name,
     content |-> TestimonialCreate(body).content, approved |-> FALSE,
     created_at |-> t]

\* POST /testimonials
create_testimonial(body) ==
    LET testimonial_obj == Testimonial(nextId, body, now)
    IN  /\ testimonials' = insert_one(testimonials, testimonial_obj)
        /\ nextId' = nextId + 1
        /\ resp' = Response("create_testimonial", NoCredentials, now, 200, testimonial_obj)
        /\ UNCHANGED <<now, issued, leaders, wars, gallery, procs, logs, module>>

\* PUT /testimonials/{testimonial_id}/approve
approve_testimonial_ungated(credentials, testimonial_id) ==
    IF Matching(testimonials, testimonial_id) = {}
    THEN Answer("approve_testimonial", credentials, 404, "Testimonial not found")
    ELSE /\ testimonials' = update_one(testimonials, testimonial_id, [approved |-> TRUE])
         /\ approvedBy' = IF verify_token(credentials, now) = "ok"
                          THEN approvedBy \cup {testimonial_id} ELSE approvedBy
         /\ resp' = Response("approve_testimonial", credentials, now, 200,
                             "Testimonial approved")
         /\ UNCHANGED <<now, issued, leaders, wars, gallery, nextId, procs,
                        createdWars, overlapped, module>>

approve_testimonial(credentials, testimonial_id) ==
    IF verify_token(credentials, now) # "ok"
    THEN Refused("approve_testimonial", credentials)
    ELSE IF Matching(testimonials, testimonial_id) = {}
    THEN Answer("approve_testimonial", credentials, 404, "Testimonial not found")
    ELSE /\ testimonials' = update_one(testimonials, testimonial_id, [approved |-> TRUE])
         /\ approvedBy' = approvedBy \cup {testimonial_id}
         /\ resp' = Response("approve_testimonial", credentials, now, 200,
                             "Testimonial approved")
         /\ UNCHANGED <<now, issued, leaders, wars, gallery, nextId, procs,
                        createdWars, overlapped, module>>

\* DELETE /testimonials/{testimonial_id}
delete_testimonial(credentials, testimonial_id) ==
    IF verify_token(credentials, now) # "ok"
    THEN Refused("delete_testimonial", credentials)
    ELSE IF Matching(testimonials, testimonial_id) = {}
    THEN Answer("delete_testimonial", credentials, 404, "Testimonial not found")
    ELSE /\ testimonials' = delete_one(testimonials, testimonial_id)
         /\ resp' = Response("delete_testimonial", credentials, now, 200,
                             "Testimonial deleted successfully")
         /\ UNCHANGED <<now, issued, leaders, wars, gallery, nextId, procs,
                        logs, module>>

\* POST /chat: the provider answers or fails; the store is not touched.
chat_with_bot(chat_data, provider_ok) ==
    IF provider_ok
    THEN Answer("chat_with_bot", NoCredentials, 200, chat_data.session_id)
    ELSE Answer("chat_with_bot", NoCredentials, 500, "Chat error")

\* GET /admin/stats: five counts, read one after another and only reported
\* (the counts themselves are not modelled).
get_admin_stats(credentials) ==
    IF verify_token(credentials, now) # "ok"
    THEN Refused("get_admin_stats", credentials)
    ELSE Answer("get_admin_stats", credentials, 200, "stats")

\* PUT /wars/{war_id}: find_one, update_one, find_one, each awaited.
NoUpdate == [opponent |-> None, wins |-> None, losses |-> None, order |-> None]
IdleUpdate == [pc |-> "idle", war_id |-> 0, war_data |-> NoUpdate,
               creds |-> NoCredentials, at |-> 0]

\* {k: v for k, v in war_data.model_dump().items() if v is not None}
update_data_if_truthy(war_data) ==
    [k \in {k \in DOMAIN war_data :
               /\ war_data[k] # None
               /\ k \in {"wins", "losses", "order"} => war_data[k][1] # 0}
        |-> war_data[k][1]]

update_data(war_data) ==
    [k \in {k \in DOMAIN war_data : war_data[k] # None} |-> war_data[k][1]]

update_war_find(p, credentials, war_id, war_data) ==
    /\ upd[p].pc = "idle"
    /\ IF verify_token(credentials, now) # "ok" THEN Refused("update_war", credentials)
       ELSE IF find_one(wars, war_id) = None
       THEN Answer("update_war", credentials, 404, "War not found")
       ELSE /\ upd' = [upd EXCEPT ![p] = [pc |-> "update", war_id |-> war_id,
                                          war_data |-> war_data,
                                          creds |-> credentials, at |-> now]]
            /\ resp' = Response("update_war", credentials, now, 0, "find_one")
            /\ UNCHANGED <<now, issued, store, nextId, ini, logs, module>>

update_war_update(p) ==
    /\ upd[p].pc = "update"
    /\ wars' = IF DOMAIN update_data(upd[p].war_data) # {}
               THEN update_one(wars, upd[p].war_id, update_data(upd[p].war_data))
               ELSE wars
    /\ upd' = [upd EXCEPT ![p].pc = "refind"]
    /\ resp' = Response("update_war", upd[p].creds, upd[p].at, 0, "update_one")
    /\ UNCHANGED <<now, issued, leaders, gallery, testimonials, nextId, ini,
                   logs, module>>

\* WarStatistic(**updated): with updated = None this raises TypeError, which
\* the framework answers with 500.
update_war_return(p) ==
    /\ upd[p].pc = "refind"
    /\ LET updated == find_one(wars, upd[p].war_id)
       IN  resp' = IF updated = None
                   THEN Response("update_war", upd[p].creds, upd[p].at, 500,
                                 "Internal Server Error")
                   ELSE Response("update_war", upd[p].creds, upd[p].at, 200,
                                 updated[1])
    /\ upd' = [upd EXCEPT ![p] = IdleUpdate]
    /\ UNCHANGED <<now, issued, store, nextId, ini, logs, module>>

\* POST /initialize: count_documents, then three insert_many, each awaited.
SeedLeaders(id) ==
    << [id |-> id, name |-> "Vergilij", title |-> "Osnovatel klana",
        description |-> "leader-1", image_url |-> "nrlemlvl_image.png", order |-> 1],
       [id |-> id + 1, name |-> "Aster", title |-> "Glavnokomanduyushchij klana",
        description |-> "leader-2", image_url |-> "bnfzign7_image.png", order |-> 2],
       [id |-> id + 2, name |-> "Denis", title |-> "Gercog Bragi",
        description |-> "leader-3", image_url |-> "4im444p4_image.png", order |-> 3] >>

SeedWars(id) ==
    << [id |-> id, opponent |-> "Mongoliya i Kazahi", wins |-> 11, losses |-> 1, order |-> 1],
       [id |-> id + 1, opponent |-> "Franciya", wins |-> 6, losses |-> 0, order |-> 2],
       [id |-> id + 2, opponent |-> "Rim", wins |-> 4, losses |-> 4, order |-> 3],
       [id |-> id + 3, opponent |-> "DzhK", wins |-> 1, losses |-> 5, order |-> 4],
       [id |-> id + 4, opponent |-> "Angliya", wins |-> 0, losses |-> 1, order |-> 5],
       [id |-> id + 5, opponent |-> "OU", wins |-> 2, losses |-> 0, order |-> 6] >>

SeedGallery(id, t) ==
    << [id |-> id, image_url |-> "nrlemlvl_image.png", created_at |-> t],
       [id |-> id + 1, image_url |-> "bnfzign7_image.png", created_at |-> t],
       [id |-> id + 2, image_url |-> "4im444p4_image.png", created_at |-> t],
       [id |-> id + 3, image_url |-> "rsdp2wa0_image.png", created_at |-> t] >>

IdleInit == [pc |-> "idle", returned |-> "none"]

initialize_count_unchecked(p) ==
    /\ ini[p].pc = "idle"
    /\ overlapped' = (overlapped \/ \E q \in DOMAIN ini : q # p /\ ini[q].pc # "idle")
    /\ ini' = [ini EXCEPT ![p].pc = "leaders"]
    /\ resp' = Response("initialize_data", NoCredentials, now, 0, "count_documents")
    /\ UNCHANGED <<now, issued, store, nextId, upd, approvedBy, createdWars, module>>

initialize_count(p) ==
    /\ ini[p].pc = "idle"
    /\ overlapped' = (overlapped \/ \E q \in DOMAIN ini : q # p /\ ini[q].pc # "idle")
    /\ LET existing_leaders == Len(leaders)
       IN  IF existing_leaders > 0
           THEN /\ ini' = [ini EXCEPT ![p].returned = "already"]
                /\ resp' = Response("initialize_data", NoCredentials, now, 200,
                                    "Database already initialized")
           ELSE /\ ini' = [ini EXCEPT ![p].pc = "leaders"]
                /\ resp' = Response("initialize_data", NoCredentials, now, 0,
                                    "count_documents")
    /\ UNCHANGED <<now, issued, store, nextId, upd, approvedBy, createdWars, module>>

initialize_leaders(p) ==
    /\ ini[p].pc = "leaders"
    /\ leaders' = insert_many(leaders, SeedLeaders(nextId))
    /\ nextId' = nextId + Len(SeedLeaders(nextId))
    /\ ini' = [ini EXCEPT ![p].pc = "wars"]
    /\ resp' = Response("initialize_data", NoCredentials, now, 0, "insert leaders")
    /\ UNCHANGED <<now, issued, wars, gallery, testimonials, upd, logs, module>>

initialize_wars(p) ==
    /\ ini[p].pc = "wars"
    /\ wars' = insert_many(wars, SeedWars(nextId))
    /\ nextId' = nextId + Len(SeedWars(nextId))
    /\ ini' = [ini EXCEPT ![p].pc = "gallery"]
    /\ resp' = Response("initialize_data", NoCredentials, now, 0, "insert wars")
    /\ UNCHANGED <<now, issued, leaders, gallery, testimonials, upd, logs, module>>

initialize_gallery(p) ==
    /\ ini[p].pc = "gallery"
    /\ gallery' = insert_many(gallery, SeedGallery(nextId, now))
    /\ nextId' = nextId + Len(SeedGallery(nextId, now))
    /\ ini' = [ini EXCEPT ![p] = [pc |-> "idle", returned |-> "seeded"]]
    /\ resp' = Response("initialize_data", NoCredentials, now, 200,
                        "Database initialized successfully")
    /\ UNCHANGED <<now, issued, leaders, wars, testimonials, upd, logs, module>>

(***************************************************************************)
(* LOADING THE MODULE, AND THE SERVER THAT SERVES `app`                    *)
(***************************************************************************)

\* The routes decorated onto api_router (its prefix is "/api").
ApiRoutes ==
    {"POST /auth/login", "GET /leaders", "GET /wars", "POST /wars",
     "PUT /wars/{war_id}", "DELETE /wars/{war_id}", "GET /gallery",
     "POST /gallery", "DELETE /gallery/{image_id}", "GET /testimonials",
     "POST /testimonials", "PUT /testimonials/{testimonial_id}/approve",
     "DELETE /testimonials/{testimonial_id}", "POST /chat", "GET /admin/stats",
     "POST /initialize"}

\* FastAPI(): an application with no route, middleware or hook of its own.
FastAPI == [routes |-> {}, middleware |-> {}, on_shutdown |-> {}]

LoadStep(from, to) == loadPc = from /\ loadPc' = to

\* client = AsyncIOMotorClient(mongo_url)
load_client ==
    /\ LoadStep("start", "client")
    /\ clientOpen' = TRUE
    /\ UNCHANGED <<now, issued, store, nextId, procs, resp, logs, appName,
                   appObjs, routerRoutes, server, served, accessLog>>

\* app = FastAPI()
load_app ==
    /\ LoadStep("client", "app")
    /\ appObjs' = Append(appObjs, FastAPI)
    /\ appName' = Len(appObjs) + 1
    /\ UNCHANGED <<now, issued, store, nextId, procs, resp, logs, routerRoutes,
                   server, served, clientOpen, accessLog>>

\* api_router = APIRouter(prefix="/api") and every @api_router route
load_api_router ==
    /\ LoadStep("app", "router")
    /\ routerRoutes' = ApiRoutes
    /\ UNCHANGED <<now, issued, store, nextId, procs, resp, logs, appName,
                   appObjs, server, served, clientOpen, accessLog>>

\* app.include_router(api_router)
load_include_router ==
    /\ LoadStep("router", "included")
    /\ appObjs' = [appObjs EXCEPT ![appName].routes =
                       @ \cup {<<"/api", r>> : r \in routerRoutes}]
    /\ UNCHANGED <<now, issued, store, nextId, procs, resp, logs, appName,
                   routerRoutes, server, served, clientOpen, accessLog>>

\* app.add_middleware(CORSMiddleware, ...)
load_add_middleware ==
    /\ LoadStep("included", "middleware")
    /\ appObjs' = [appObjs EXCEPT ![appName].middleware = @ \cup {"CORSMiddleware"}]
    /\ UNCHANGED <<now, issued, store, nextId, procs, resp, logs, appName,
                   routerRoutes, server, served, clientOpen, accessLog>>

\* @app.on_event("shutdown") over shutdown_db_client
load_on_shutdown ==
    /\ LoadStep("middleware", "hook")
    /\ appObjs' = [appObjs EXCEPT ![appName].on_shutdown = @ \cup {"shutdown_db_client"}]
    /\ UNCHANGED <<now, issued, store, nextId, procs, resp, logs, appName,
                   routerRoutes, server, served, clientOpen, accessLog>>

\* app = FastAPI(), a second time: the name is bound to a new object.
load_app_again ==
    /\ LoadStep("hook", "rebound")
    /\ appObjs' = Append(appObjs, FastAPI)
    /\ appName' = Len(appObjs) + 1
    /\ UNCHANGED <<now, issued, store, nextId, procs, resp, logs, routerRoutes,
                   server, served, clientOpen, accessLog>>

\* @app.get("/") over read_root
load_read_root ==
    /\ LoadStep("rebound", "loaded")
    /\ appObjs' = [appObjs EXCEPT ![appName].routes = @ \cup {<<"", "GET /">>}]
    /\ UNCHANGED <<now, issued, store, nextId, procs, resp, logs, appName,
                   routerRoutes, server, served, clientOpen, accessLog>>

\* The server imports the module and serves what `app` names.
Startup ==
    /\ loadPc = "loaded"
    /\ server = "down"
    /\ server' = "up"
    /\ served' = appName
    /\ UNCHANGED <<now, issued, store, nextId, procs, resp, logs, loadPc,
                   appName, appObjs, routerRoutes, clientOpen, accessLog>>

\* A request is answered by the served application's own route table.
Request(route) ==
    /\ server = "up"
    /\ accessLog' = accessLog \cup
           {<<route, IF route \in appObjs[served].routes THEN "routed" ELSE "404">>}
    /\ UNCHANGED <<now, issued, store, nextId, procs, resp, logs, loadPc,
                   appName, appObjs, routerRoutes, server, served, clientOpen>>

\* Shutdown runs the served application's shutdown hooks;
\* shutdown_db_client is client.close().
Shutdown ==
    /\ server = "up"
    /\ server' = "stopped"
    /\ clientOpen' = IF "shutdown_db_client" \in appObjs[served].on_shutdown
                     THEN FALSE ELSE clientOpen
    /\ UNCHANGED <<now, issued, store, nextId, procs, resp, logs, loadPc,
                   appName, appObjs, routerRoutes, served, accessLog>>

(***************************************************************************)
(* INITIAL STATES                                                          *)
(***************************************************************************)

\* The objects the module has built once it is loaded.
LoadedApps ==
    << [routes |-> {<<"/api", r>> : r \in ApiRoutes},
        middleware |-> {"CORSMiddleware"},
        on_shutdown |-> {"shutdown_db_client"}],
       [routes |-> {<<"", "GET /">>}, middleware |-> {}, on_shutdown |-> {}] >>

NoRequest == Response("none", NoCredentials, 0, 0, "none")

Quiet ==
    /\ upd = [p \in 1..NumUpd |-> IdleUpdate]
    /\ ini = [p \in 1..NumInit |-> IdleInit]
    /\ resp = NoRequest
    /\ approvedBy = {}
    /\ createdWars = {}
    /\ overlapped = FALSE

ModuleLoaded ==
    /\ loadPc = "loaded"
    /\ appName = 2
    /\ appObjs = LoadedApps
    /\ routerRoutes = ApiRoutes
    /\ server = "down"
    /\ served = 0
    /\ clientOpen = TRUE
    /\ accessLog = {}

EmptyStore ==
    /\ leaders = <<>>
    /\ wars = <<>>
    /\ gallery = <<>>
    /\ testimonials = <<>>
    /\ nextId = 1

\* The handlers, over an empty store.
Init == now = 0 /\ issued = {} /\ Quiet /\ EmptyStore /\ ModuleLoaded

\* The same a token's lifetime after a login: the token it returned has expired.
InitGate ==
    /\ now = TokenLifetimeTicks
    /\ issued = {[token |-> create_access_token([sub |-> ADMIN_USERNAME,
                                                 role |-> "admin"], 0),
                  at |-> 0, username |-> ADMIN_USERNAME,
                  password |-> ADMIN_PASSWORD]}
    /\ Quiet /\ EmptyStore /\ ModuleLoaded

\* The interpreter about to execute the module.
InitLoad ==
    /\ now = 0 /\ issued = {} /\ Quiet /\ EmptyStore
    /\ loadPc = "start"
    /\ appName = 0
    /\ appObjs = <<>>
    /\ routerRoutes = {}
    /\ server = "down"
    /\ served = 0
    /\ clientOpen = FALSE
    /\ accessLog = {}

\* A store that earlier create_war and create_testimonial requests (and
\* approvals of every second testimonial) have filled with n documents each.
PreloadedWars(n) ==
    [i \in 1..n |-> [id |-> i, opponent |-> "Clan", wins |-> 0, losses |-> 0,
                      order |-> i % 5]]
PreloadedTestimonials(n) ==
    [i \in 1..n |-> [id |-> n + i, author_name |-> DefaultAuthor,
                      content |-> "Glory", approved |-> (i % 2 = 0),
                      created_at |-> i]]

CapQuiet ==
    /\ ModuleLoaded
    /\ issued = {}
    /\ upd = [p \in 1..NumUpd |-> IdleUpdate]
    /\ ini = [p \in 1..NumInit |-> IdleInit]
    /\ resp = NoRequest
    /\ createdWars = {}
    /\ overlapped = FALSE
    /\ leaders = <<>>
    /\ gallery = <<>>

InitCapWars ==
    /\ CapQuiet
    /\ testimonials = <<>>
    /\ approvedBy = {}
    /\ \E n \in {0, Preload} :
          /\ wars = PreloadedWars(n)
          /\ nextId = 2 * n + 1
          /\ now = n

InitCapTestimonials ==
    /\ CapQuiet
    /\ wars = <<>>
    /\ \E n \in {0, Preload} :
          /\ testimonials = PreloadedTestimonials(n)
          /\ approvedBy = {n + i : i \in {j \in 1..n : j % 2 = 0}}
          /\ nextId = 2 * n + 1
          /\ now = n

(***************************************************************************)
(* WHAT THE REQUESTS CARRY                                                 *)
(***************************************************************************)

Logins ==
    {[username |-> ADMIN_USERNAME, password |-> ADMIN_PASSWORD],
     [username |-> ADMIN_USERNAME, password |-> "guess"],
     [username |-> "visitor", password |-> ADMIN_PASSWORD]}

\* A token signed with a key that is not JWT_SECRET, far from expiry.
Forged ==
    Jwt(ADMIN_USERNAME, "admin", (3 * TokenLifetimeTicks) \div TicksPerSecond,
        "attacker-key")

\* No credentials, a string that is no JWT, a forgery, or a token once issued.
Presented == {NoCredentials, Garbage, Forged} \cup {i.token : i \in issued}

\* The instants at which the clock is read: around the issue of a token and
\* around its expiry, a tick apart.
Instants ==
    (0..Slack) \cup
    {TokenLifetimeTicks - TicksPerSecond + k : k \in 0..(TicksPerSecond + Slack)}
Later == {0, TokenLifetimeTicks}

WarInputs ==
    {[opponent |-> "Spain", wins |-> 3, losses |-> 1, order |-> 7],
     [opponent |-> "Leon", wins |-> 0, losses |-> 0, order |-> 0]}

\* Partial updates: nothing, one field set to 0, two fields, all four.
Updates ==
    {NoUpdate,
     [NoUpdate EXCEPT !.wins = Some(0)],
     [NoUpdate EXCEPT !.opponent = Some("Castile"), !.order = Some(0)],
     [opponent |-> Some("Castile"), wins |-> Some(0), losses |-> Some(2),
      order |-> Some(0)]}

Bodies ==
    [author_name : {None, Some("Afonso")}, content : {"Viva"},
     approved : {None, Some(TRUE)}]

\* The ids a client addresses: an absent one and the newest, or any.
Addressed(coll) == {0} \cup (IF coll = <<>> THEN {} ELSE {coll[Len(coll)].id})
AddressedAny(coll) == {0} \cup Ids(coll)

\* What the requests of the gate specification carry: nothing, the expired
\* token, or a token still valid.
Carried == {NoCredentials} \cup {i.token : i \in issued}

MayLogin == Cardinality(issued) < MaxTokens
MayCreate == nextId <= MaxNew

(***************************************************************************)
(* SPECIFICATIONS                                                          *)
(***************************************************************************)

\* The auth gate alone: logins, the clock, and a gated route.
NextAuth ==
    \/ \E l \in Logins : MayLogin /\ admin_login(l)
    \/ \E t \in Instants : Tick(t)
    \/ \E c \in Presented : get_admin_stats(c)

SpecAuth == Init /\ [][NextAuth]_vars

\* Every route, with any credentials.
NextGate ==
    \/ \E l \in Logins : MayLogin /\ admin_login(l)
    \/ get_leaders
    \/ get_wars
    \/ get_gallery
    \/ \E b \in BOOLEAN : get_testimonials(b)
    \/ \E c \in Carried :
          MayCreate /\ create_war(c, [opponent |-> "Spain", wins |-> 3,
                                       losses |-> 1, order |-> 7])
    \/ \E c \in Carried, id \in Addressed(wars) :
          update_war_find(1, c, id, [NoUpdate EXCEPT !.wins = Some(0)])
    \/ update_war_update(1)
    \/ update_war_return(1)
    \/ \E c \in Carried, id \in Addressed(wars) : delete_war(c, id)
    \/ \E c \in Carried :
          MayCreate /\ add_gallery_image(c, [image_url |-> "castle.png"])
    \/ \E c \in Carried, id \in Addressed(gallery) : delete_gallery_image(c, id)
    \/ \E b \in {x \in Bodies : x.author_name = None} :
          MayCreate /\ create_testimonial(b)
    \/ \E c \in Carried, id \in Addressed(testimonials) : approve_testimonial(c, id)
    \/ \E c \in Carried, id \in Addressed(testimonials) : delete_testimonial(c, id)
    \/ \E ok \in BOOLEAN : chat_with_bot([message |-> "Ola", session_id |-> "s1"], ok)
    \/ \E c \in Carried : get_admin_stats(c)
    \/ initialize_count(1)
    \/ initialize_leaders(1)
    \/ initialize_wars(1)
    \/ initialize_gallery(1)

SpecGate == InitGate /\ [][NextGate]_vars

\* The war routes: update_war requests between their awaits, with creates
\* and deletes running in between.
NextWars ==
    \/ \E l \in Logins : MayLogin /\ admin_login(l)
    \/ \E c \in Presented :
          /\ Len(wars) < MaxWars /\ nextId <= MaxWars
          /\ create_war(c, [opponent |-> "Spain", wins |-> 3, losses |-> 1,
                            order |-> 7])
    \/ \E p \in 1..NumUpd, c \in Presented, id \in AddressedAny(wars), u \in Updates :
          update_war_find(p, c, id, u)
    \/ \E p \in 1..NumUpd : update_war_update(p)
    \/ \E p \in 1..NumUpd : update_war_return(p)
    \/ \E c \in Presented, id \in AddressedAny(wars) : delete_war(c, id)
    \/ get_wars

SpecWars == Init /\ [][NextWars]_vars

\* The bootstrap: initialize requests between their awaits, no other writer.
NextInit ==
    \/ \E p \in 1..NumInit : initialize_count(p)
    \/ \E p \in 1..NumInit : initialize_leaders(p)
    \/ \E p \in 1..NumInit : initialize_wars(p)
    \/ \E p \in 1..NumInit : initialize_gallery(p)
    \/ \E t \in Later : Tick(t)
    \/ get_leaders
    \/ get_gallery

SpecInit == Init /\ [][NextInit]_vars

\* The list routes over a store near the cap of the lists: a few documents
\* are added to, and taken from, an empty or a preloaded collection.
Base(coll) == IF Len(coll) >= Preload THEN Preload ELSE 0
MayAdd(coll) ==
    /\ Len(coll) <= Base(coll) + MaxNew
    /\ nextId <= 2 * Base(coll) + MaxNew + 2
MayRemove(coll) == Len(coll) > Base(coll)

NextCapWars ==
    \/ \E l \in Logins : MayLogin /\ admin_login(l)
    \/ \E c \in Carried, w \in WarInputs : MayAdd(wars) /\ create_war(c, w)
    \/ \E c \in Carried, id \in Addressed(wars) : MayRemove(wars) /\ delete_war(c, id)
    \/ get_wars

SpecCapWars == InitCapWars /\ [][NextCapWars]_vars

NextCapTestimonials ==
    \/ \E l \in Logins : issued = {} /\ admin_login(l)
    \/ \E t \in {now + 1} : now <= Base(testimonials) /\ Tick(t)
    \/ \E b \in {x \in Bodies : x.author_name = None} :
          MayAdd(testimonials) /\ create_testimonial(b)
    \/ \E c \in Presented, id \in Addressed(testimonials) : approve_testimonial(c, id)
    \/ \E c \in Presented, id \in Addressed(testimonials) :
          MayRemove(testimonials) /\ delete_testimonial(c, id)
    \/ \E b \in BOOLEAN : get_testimonials(b)

SpecCapTestimonials == InitCapTestimonials /\ [][NextCapTestimonials]_vars

\* The module being loaded, then served and shut down.
NextLoad ==
    \/ load_client
    \/ load_app
    \/ load_api_router
    \/ load_include_router
    \/ load_add_middleware
    \/ load_on_shutdown
    \/ load_app_again
    \/ load_read_root
    \/ Startup
    \/ \E r \in {"", "/api"} \X (ApiRoutes \cup {"GET /"}) :
          Cardinality(accessLog) < MaxHits /\ Request(r)
    \/ Shutdown

SpecLoad == InitLoad /\ [][NextLoad]_vars

(***************************************************************************)
(* CLAIMS                                                                  *)
(***************************************************************************)

\* A login with the configured credentials is answered 200 with a token now
\* in the log; any other login is answered 401 with no token, and every
\* token in the log was issued to the configured credentials.
LoginContract ==
    /\ \A i \in issued :
          i.username = ADMIN_USERNAME /\ i.password = ADMIN_PASSWORD
    /\ resp.op = "admin_login" =>
          IF /\ resp.body.login_data.username = ADMIN_USERNAME
             /\ resp.body.login_data.password = ADMIN_PASSWORD
          THEN /\ resp.status = 200
               /\ \E i \in issued : i.token = resp.body.access_token /\ i.at = resp.at
          ELSE /\ resp.status = 401
               /\ resp.body.access_token = NoCredentials

\* The instant from which a token issued at `at` is refused: 24 hours after
\* its issue, cut down to a whole second.
Expiry(at) == ((at + TokenLifetimeTicks) \div TicksPerSecond) * TicksPerSecond

\* C2, as stated: a gated request is let through if and only if its token
\* was issued by a login with the configured credentials no more than 24
\* hours before; other logins fail with 401 and issue no token.
C2_AcceptedWithin24Hours ==
    /\ LoginContract
    /\ resp.op = "get_admin_stats" =>
          (resp.status = 200 <=>
              \E i \in issued : /\ i.token = resp.creds
                                /\ i.username = ADMIN_USERNAME
                                /\ i.password = ADMIN_PASSWORD
                                /\ resp.at - i.at <= TokenLifetimeTicks)

\* C2, amended: a gated request is let through if and only if its token was
\* issued by a login with the configured credentials and the clock is still
\* before the token's expiry, which is the issue time plus 24 hours cut down
\* to a whole second: so never once 24 hours have passed, and always until
\* one second before that.
C2_AcceptedUntilExpiry ==
    /\ LoginContract
    /\ resp.op = "get_admin_stats" =>
          /\ resp.status = 200 <=>
                \E i \in issued : /\ i.token = resp.creds
                                  /\ i.username = ADMIN_USERNAME
                                  /\ i.password = ADMIN_PASSWORD
                                  /\ resp.at < Expiry(i.at)
          /\ resp.status = 200 =>
                \E i \in issued : /\ i.token = resp.creds
                                  /\ resp.at - i.at < TokenLifetimeTicks
          /\ \A i \in issued :
                /\ i.token = resp.creds
                /\ resp.at - i.at <= TokenLifetimeTicks - TicksPerSecond
                => resp.status = 200

\* A token is let through one tick before 24 hours have passed since its issue.
C2_Witness ==
    /\ resp.op = "get_admin_stats"
    /\ resp.status = 200
    /\ \E i \in issued : /\ i.token = resp.creds
                         /\ resp.at - i.at = TokenLifetimeTicks - 1

\* The step is a request step that wrote its response.
Handled(op) == resp'.op = op /\ resp' # resp

\* C1, as stated: a request step other than create_testimonial whose
\* credentials verify_token does not accept leaves the four collections as
\* they were.
C1_OnlyTestimonialsUngated ==
    [][(/\ resp' # resp
        /\ resp'.op # "create_testimonial"
        /\ verify_token(resp'.creds, resp'.at) # "ok")
       => store' = store]_vars

\* C1, amended: a request step other than create_testimonial and initialize
\* whose credentials verify_token does not accept leaves the four collections
\* as they were.
C1_GateOnMutatingRoutes ==
    [][(/\ resp' # resp
        /\ resp'.op \notin {"create_testimonial", "initialize_data"}
        /\ verify_token(resp'.creds, resp'.at) # "ok")
       => store' = store]_vars

\* A delete_war carrying the expired token was refused over a store that
\* holds a war record.
C1_Witness ==
    /\ resp.op = "delete_war"
    /\ resp.status = 401
    /\ verify_token(resp.creds, resp.at) = "expired"
    /\ wars # <<>>

\* C4: a stored testimonial is approved only if an approve_testimonial with
\* a valid token matched its id; create_testimonial answers with, and
\* stores, approved = FALSE; the default public list holds only testimonials
\* approved that way.
C4_ApprovedOnlyByAdmin ==
    /\ \A i \in 1..Len(testimonials) :
          testimonials[i].approved => testimonials[i].id \in approvedBy
    /\ resp.op = "create_testimonial" => resp.body.approved = FALSE
    /\ LET shown == FindTestimonials(TRUE)
       IN  \A k \in 1..Len(shown) : shown[k].id \in approvedBy

\* A testimonial just created stays unapproved beside one that an
\* authorized approval has approved, after an approval without a valid
\* token was refused.
C4_Witness ==
    /\ resp.op = "approve_testimonial"
    /\ resp.status = 401
    /\ \E i, j \in 1..Len(testimonials) :
          /\ testimonials[i].approved
          /\ testimonials[i].id > 2 * Preload
          /\ ~testimonials[j].approved
          /\ testimonials[j].id > 2 * Preload

UpdateFields == {"opponent", "wins", "losses", "order"}

\* C5: the update_one step of an update_war request gives the addressed
\* record every supplied field (0 included) and leaves its other fields, its
\* id, every other war record and every other collection as they were; the
\* request's other steps change no collection.
C5_PartialUpdate ==
    [][\A p \in 1..NumUpd :
          /\ (upd[p].pc = "update" /\ upd'[p].pc = "refind") =>
                /\ Len(wars') = Len(wars)
                /\ \A i \in 1..Len(wars) :
                      /\ wars'[i].id = wars[i].id
                      /\ wars[i].id # upd[p].war_id => wars'[i] = wars[i]
                      /\ wars[i].id = upd[p].war_id =>
                            \A f \in UpdateFields :
                                wars'[i][f] = IF upd[p].war_data[f] = None
                                              THEN wars[i][f]
                                              ELSE upd[p].war_data[f][1]
                /\ <<leaders, gallery, testimonials>>' = <<leaders, gallery, testimonials>>
          /\ (upd'[p] # upd[p] /\ upd[p].pc # "update") => store' = store
      ]_vars

\* An update that supplied wins = 0 and no opponent has been applied to one of
\* two records: its wins are 0, its opponent is the old one.
C5_Witness ==
    /\ Len(wars) = 2
    /\ \E p \in 1..NumUpd, i \in 1..Len(wars) :
          /\ upd[p].pc = "refind"
          /\ upd[p].war_data.wins = Some(0)
          /\ upd[p].war_data.opponent = None
          /\ wars[i].id = upd[p].war_id
          /\ wars[i].wins = 0
          /\ wars[i].opponent = "Spain"

\* C9: an update_war request that passed the gate ends with the record of
\* the given id (200) or with NotFound (404), and with NotFound whenever the
\* record is absent.
C9_UpdateEndsFoundOrNotFound ==
    [][\A p \in 1..NumUpd :
          (upd[p].pc = "refind" /\ upd'[p].pc = "idle") =>
              /\ resp'.status \in {200, 404}
              /\ resp'.status = 200 => resp'.body.id = upd[p].war_id
              /\ find_one(wars, upd[p].war_id) = None => resp'.status = 404
      ]_vars

\* The documents of a result are documents of the collection, each at most
\* once.
Drawn(body, coll) ==
    /\ {body[k] : k \in 1..Len(body)} \subseteq {coll[i] : i \in 1..Len(coll)}
    /\ Cardinality({body[k].id : k \in 1..Len(body)}) = Len(body)

\* The documents of the collection that a result leaves out.
LeftOut(body, coll) ==
    {coll[i] : i \in 1..Len(coll)} \ {body[k] : k \in 1..Len(body)}

Approved(coll) == {i \in 1..Len(coll) : coll[i].approved}

\* C3, as stated: get_testimonials by default returns only approved
\* testimonials, and with approved_only = FALSE returns every stored
\* testimonial, whatever their number.
C3_AllOrApproved ==
    [][/\ Handled("get_testimonials") =>
             \A k \in 1..Len(resp'.body) : resp'.body[k].approved
       /\ Handled("get_testimonials_all") =>
             /\ Drawn(resp'.body, testimonials)
             /\ Len(resp'.body) = Len(testimonials)
      ]_vars

\* C3, amended: get_testimonials by default returns only approved
\* testimonials, and with approved_only = FALSE returns every stored
\* testimonial when at most LIST_CAP are stored, otherwise LIST_CAP of them,
\* none older than a testimonial left out; the default list is cut the same
\* way.
C3_AllOrApprovedUpToCap ==
    [][/\ Handled("get_testimonials") =>
             /\ \A k \in 1..Len(resp'.body) : resp'.body[k].approved
             /\ Drawn(resp'.body, testimonials)
             /\ Len(resp'.body) = Min(Cardinality(Approved(testimonials)), LIST_CAP)
       /\ Handled("get_testimonials_all") =>
             /\ Drawn(resp'.body, testimonials)
             /\ Len(resp'.body) = Min(Len(testimonials), LIST_CAP)
             /\ \A t \in LeftOut(resp'.body, testimonials) :
                   \A k \in 1..Len(resp'.body) :
                       t.created_at <= resp'.body[k].created_at
      ]_vars

\* With more than LIST_CAP testimonials stored, the full listing answered
\* with LIST_CAP of them, approved and unapproved ones among them.
C3_Witness ==
    /\ resp.op = "get_testimonials_all"
    /\ Len(testimonials) > LIST_CAP
    /\ Len(resp.body) = LIST_CAP
    /\ \E k, l \in 1..Len(resp.body) : resp.body[k].approved /\ ~resp.body[l].approved

Ordered(body) ==
    \A k, l \in 1..Len(body) : k < l => body[k].order <= body[l].order

\* C7, as stated: a get_wars that follows an accepted create_war, with no
\* delete_war in between, answers with a list that holds the created record
\* and is in non-decreasing order of the order field, for every number of war
\* records.
C7_CreatedWarListed ==
    [][Handled("get_wars") =>
          /\ Ordered(resp'.body)
          /\ \A id \in createdWars : \E k \in 1..Len(resp'.body) : resp'.body[k].id = id
      ]_vars

\* C7, amended: the list is in non-decreasing order of the order field and
\* holds the created record when at most LIST_CAP war records are stored;
\* with more, it holds LIST_CAP records, none of an order above that of a
\* record left out.
C7_CreatedWarListedUpToCap ==
    [][Handled("get_wars") =>
          /\ Ordered(resp'.body)
          /\ Drawn(resp'.body, wars)
          /\ Len(resp'.body) = Min(Len(wars), LIST_CAP)
          /\ Len(wars) <= LIST_CAP =>
                \A id \in createdWars : \E k \in 1..Len(resp'.body) : resp'.body[k].id = id
          /\ \A w \in LeftOut(resp'.body, wars) :
                \A k \in 1..Len(resp'.body) : resp'.body[k].order <= w.order
      ]_vars

\* A war created into a store of LIST_CAP records was listed, in its place
\* by order, by the get_wars that followed.
C7_Witness ==
    /\ resp.op = "get_wars"
    /\ Len(wars) = LIST_CAP
    /\ Len(resp.body) = LIST_CAP
    /\ \E k \in 1..Len(resp.body) :
          /\ resp.body[k].id \in createdWars
          /\ k > 1
          /\ resp.body[k - 1].order < resp.body[k].order

Returned == \E q \in 1..NumInit : ini[q].returned # "none"

Seeded == Len(leaders) = 3 /\ Len(wars) = 6 /\ Len(gallery) = 4

\* C6: an initialize call whose count is taken after an earlier call has
\* returned answers "Database already initialized" and inserts nothing; and
\* when calls on the empty store have not overlapped, the store holds
\* 3 leaders, 6 wars and 4 gallery images once one has returned.
C6_SecondInitializeIsNoOp ==
    /\ [](~overlapped /\ Returned => Seeded)
    /\ [][(/\ Handled("initialize_data")
           /\ resp'.body \in {"count_documents", "Database already initialized"}
           /\ Returned)
          => /\ resp'.body = "Database already initialized"
             /\ resp'.status = 200
             /\ store' = store
             /\ \A q \in 1..NumInit : ini'[q].pc = ini[q].pc
         ]_vars

\* One call has seeded the empty store and a later call, not overlapping it,
\* has answered that the database is initialized already.
C6_Witness ==
    /\ ~overlapped
    /\ Seeded
    /\ resp.body = "Database already initialized"
    /\ \E p, q \in 1..NumInit :
          /\ ini[p] = [pc |-> "idle", returned |-> "seeded"]
          /\ ini[q] = [pc |-> "idle", returned |-> "already"]

\* C8: however initialize calls on the empty store interleave, the seed
\* documents are inserted at most once.
C8_SeededAtMostOnce ==
    /\ Len(leaders) <= 3
    /\ Len(wars) <= 6
    /\ Len(gallery) <= 4

Configured(application) ==
    /\ {<<"/api", r>> : r \in ApiRoutes} \subseteq application.routes
    /\ "shutdown_db_client" \in application.on_shutdown

\* C10: once the module is loaded, the object bound to the name app carries
\* the /api routes and the shutdown hook, and a server that has stopped has
\* closed the database client.
C10_AppServesRouterAndClosesClient ==
    /\ loadPc = "loaded" => Configured(appObjs[appName])
    /\ server = "stopped" => ~clientOpen
====
